---- MODULE Spec2Model ----
(***************************************************************************)
(* Model of tipApp.py: a Streamlit script that keeps a list of daily tip   *)
(* records in tips_data.json.  Every user interaction re-runs the script;  *)
(* one action below is one run of the script with one button pressed.      *)
(*                                                                         *)
(* Money is counted in cents (hundredths, the precision round(x, 2) keeps).*)
(* A pandas cell that is NaN is a column of the table that is not in the   *)
(* domain of the row's vals; pd.notna(row[c]) is c \in DOMAIN row.vals.    *)
(* Columns are kept as a set: no operation of the script reads the order   *)
(* of the name columns except to render them.  Person names are distinct   *)
(* from the three fixed column names date, total_tip, per_person_share.    *)
(*                                                                         *)
(* Spec has the runs that change the store, SpecView adds the runs that    *)
(* only display it, SpecCrash adds a run that is killed while it saves.    *)
(***************************************************************************)
EXTENDS Integers, Sequences, FiniteSets, TLC

VARIABLES
    file,   \* tips_data.json: [exists, intact, data]; data is the JSON array
    df,     \* the script's global DataFrame df at the end of the last run
    op,     \* the button the last run handled, with its inputs
    shown   \* the summary table the last run displayed

vars == <<file, df, op, shown>>

----------------------------------------------------------------------------
(* Bounds and input domains *)

\* Most records the store holds in the model.
MaxRecords == 2

\* Names the user can tick or type, in Python's string order.
NameOrder == <<"A", "B">>

Names == {NameOrder[i] : i \in 1..Len(NameOrder)}

NameRank(n) == CHOOSE i \in 1..Len(NameOrder) : NameOrder[i] = n

\* Tip amounts the user can enter, in cents.
Tips == {1, 10000}

\* The date picked in the entry form.
EntryDates == {<<2024, 1, 31>>}

\* Values of date.today() when the script runs: the entry date is the last
\* day of the window, its first day (29 days back), or one day before it.
Todays == {<<2024, 1, 31>>, <<2024, 2, 29>>, <<2024, 3, 1>>}

\* Years the calendar arithmetic covers.
CalendarYears == {2023, 2024}

----------------------------------------------------------------------------
(* datetime.date: isoformat, parsing, comparison, timedelta *)

Digits == <<"0", "1", "2", "3", "4", "5", "6", "7", "8", "9">>

Digit(n) == Digits[n + 1]

DigitValue(c) == CHOOSE n \in 0..9 : Digits[n + 1] = c

\* date.isoformat(): 'YYYY-MM-DD', zero padded, as a sequence of characters.
isoformat(d) ==
    << Digit(d[1] \div 1000), Digit((d[1] \div 100) % 10),
       Digit((d[1] \div 10) % 10), Digit(d[1] % 10), "-",
       Digit(d[2] \div 10), Digit(d[2] % 10), "-",
       Digit(d[3] \div 10), Digit(d[3] % 10) >>

\* pd.to_datetime(s).dt.date on an ISO date string.
to_date(s) ==
    << 1000 * DigitValue(s[1]) + 100 * DigitValue(s[2])
         + 10 * DigitValue(s[3]) + DigitValue(s[4]),
       10 * DigitValue(s[6]) + DigitValue(s[7]),
       10 * DigitValue(s[9]) + DigitValue(s[10]) >>

\* date <= date: by year, then month, then day.
DateLE(a, b) ==
    \/ a[1] < b[1]
    \/ a[1] = b[1] /\ a[2] < b[2]
    \/ a[1] = b[1] /\ a[2] = b[2] /\ a[3] <= b[3]

IsLeap(y) == (y % 4 = 0) /\ ((y % 100 # 0) \/ (y % 400 = 0))

DaysInMonth(y, m) ==
    IF m = 2 THEN (IF IsLeap(y) THEN 29 ELSE 28)
    ELSE IF m \in {4, 6, 9, 11} THEN 30 ELSE 31

RECURSIVE DaysBeforeMonth(_, _)
DaysBeforeMonth(y, m) ==
    IF m = 1 THEN 0 ELSE DaysBeforeMonth(y, m - 1) + DaysInMonth(y, m - 1)

DaysBeforeYear(y) ==
    (y - 1) * 365 + ((y - 1) \div 4) - ((y - 1) \div 100) + ((y - 1) \div 400)

toordinal(d) == DaysBeforeYear(d[1]) + DaysBeforeMonth(d[1], d[2]) + d[3]

\* date.fromordinal(n): the year, then the month, then the day that n falls in.
fromordinal(n) ==
    LET y == CHOOSE c \in CalendarYears :
                 DaysBeforeYear(c) < n /\ n <= DaysBeforeYear(c + 1)
        k == n - DaysBeforeYear(y)
        m == CHOOSE c \in 1..12 :
                 DaysBeforeMonth(y, c) < k /\ k <= DaysBeforeMonth(y, c) + DaysInMonth(y, c)
    IN  <<y, m, k - DaysBeforeMonth(y, m)>>

\* date - timedelta(days=k)
DateMinusDays(d, k) == fromordinal(toordinal(d) - k)

\* timedelta(days=29) of the 30-day window.
WindowBack == 29

----------------------------------------------------------------------------
(* The table (DataFrame) and the file *)

NoRows == << >>

EmptyFrame == [cols |-> {}, rows |-> NoRows]

\* df.empty: the frames of this script always have the three fixed columns,
\* so a frame is empty exactly when it has no row.
IsEmpty(d) == Len(d.rows) = 0

NoFile == [exists |-> FALSE, intact |-> TRUE, data |-> NoRows]

JsonFile(data) == [exists |-> TRUE, intact |-> TRUE, data |-> data]

\* load_data() raises: json.load on a file that is no complete JSON text, or
\* df['date'] on the frame of an empty JSON array, which has no columns.
LoadRaises(f) == f.exists /\ (~f.intact \/ Len(f.data) = 0)

UnionOfDomains(data) == UNION {DOMAIN data[i].fields : i \in 1..Len(data)}

\* load_data(): pd.DataFrame(list of dicts) has the union of the keys as its
\* columns and NaN where a dict lacks a key; the date strings are parsed.
load_data(f) ==
    IF ~f.exists THEN EmptyFrame
    ELSE [cols |-> UnionOfDomains(f.data),
          rows |-> [i \in 1..Len(f.data) |->
                      [date |-> to_date(f.data[i].date),
                       total_tip |-> f.data[i].total_tip,
                       per_person_share |-> f.data[i].per_person_share,
                       vals |-> f.data[i].fields]]]

\* A variant of save_data that also skips the cells that are not positive.
save_data_skip_zero(d) ==
    [i \in 1..Len(d.rows) |->
        [date |-> isoformat(d.rows[i].date),
         total_tip |-> d.rows[i].total_tip,
         per_person_share |-> d.rows[i].per_person_share,
         fields |-> [n \in {m \in DOMAIN d.rows[i].vals : d.rows[i].vals[m] > 0}
                       |-> d.rows[i].vals[n]]]]

\* save_data(df): the JSON array json.dump writes; one object per row, the
\* date as ISO text, and one field per name column whose cell is not NaN.
save_data(d) ==
    [i \in 1..Len(d.rows) |->
        [date |-> isoformat(d.rows[i].date),
         total_tip |-> d.rows[i].total_tip,
         per_person_share |-> d.rows[i].per_person_share,
         fields |-> [n \in {m \in d.cols : m \in DOMAIN d.rows[i].vals}
                       |-> d.rows[i].vals[n]]]]

\* get_name_columns(df)
get_name_columns(d) == d.cols

\* Totals in cents whose half-cent share round() takes up: round(total / 2, 2)
\* rounds the binary double, and 0.01 / 2 is a double just above 0.005.
HalfCentRoundsUp == {1}

\* calculate_tip_per_person: round(total_tip / num_people, 2), 0.0 for nobody.
calculate_tip_per_person(total_tip, num_people) ==
    IF num_people > 0
    THEN LET q == total_tip \div num_people
             r == total_tip % num_people
         IN  IF 2 * r < num_people THEN q
             ELSE IF 2 * r > num_people THEN q + 1
             ELSE IF total_tip \in HalfCentRoundsUp THEN q + 1 ELSE q
    ELSE 0

\* A variant of delete_name that zeroes the column instead of dropping it.
delete_name_zeroing(d, name_to_delete) ==
    [cols |-> d.cols,
     rows |-> [i \in 1..Len(d.rows) |->
                 [d.rows[i] EXCEPT !.vals =
                     [n \in DOMAIN @ |-> IF n = name_to_delete THEN 0 ELSE @[n]]]]]

\* delete_name(df, name): df.drop(columns=[name]) when name is a column.
delete_name(d, name_to_delete) ==
    IF name_to_delete \in d.cols
    THEN [cols |-> d.cols \ {name_to_delete},
          rows |-> [i \in 1..Len(d.rows) |->
                      [d.rows[i] EXCEPT !.vals =
                          [n \in (DOMAIN @) \ {name_to_delete} |-> @[n]]]]]
    ELSE d

----------------------------------------------------------------------------
(* What each button handler does to the table before it saves *)

\* The row the entry form builds: the share in every selected name's column
\* and 0.0 in every other name column of the existing table.
NewRow(entry_date, total_tip, selected_names, other_cols) ==
    LET per_share == calculate_tip_per_person(total_tip, Cardinality(selected_names))
    IN  [date |-> entry_date,
         total_tip |-> total_tip,
         per_person_share |-> per_share,
         vals |-> [n \in selected_names \cup other_cols |->
                     IF n \in selected_names THEN per_share ELSE 0]]

\* A variant of the entry handler that fills a new name's column of the
\* existing rows with the new share instead of 0.0.
SaveThisDayFrameBackfill(d, entry_date, total_tip, selected_names) ==
    LET row == NewRow(entry_date, total_tip, selected_names, d.cols)
    IN  [cols |-> d.cols \cup selected_names,
         rows |-> Append(
             [i \in 1..Len(d.rows) |->
                 [d.rows[i] EXCEPT !.vals =
                     [n \in (DOMAIN @) \cup (selected_names \ d.cols) |->
                         IF n \in d.cols THEN @[n] ELSE row.per_person_share]]],
             row)]

\* "Save This Day", after validation: a non-empty table gets 0.0 in the new
\* row for its other name columns and a new 0.0 column for every name it did
\* not have; an empty table becomes the new row alone.
SaveThisDayFrame(d, entry_date, total_tip, selected_names) ==
    IF ~IsEmpty(d)
    THEN [cols |-> d.cols \cup selected_names,
          rows |-> Append(
              [i \in 1..Len(d.rows) |->
                  [d.rows[i] EXCEPT !.vals =
                      [n \in (DOMAIN @) \cup (selected_names \ d.cols) |->
                          IF n \in d.cols THEN @[n] ELSE 0]]],
              NewRow(entry_date, total_tip, selected_names, d.cols))]
    ELSE [cols |-> selected_names,
          rows |-> <<NewRow(entry_date, total_tip, selected_names, {})>>]

\* A variant of the update handler that leaves the columns of the people
\* who are no longer selected as they were.
UpdateRecordFrameKeepOthers(d, idx, edited_tip, edited_people) ==
    LET per_share == calculate_tip_per_person(edited_tip, Cardinality(edited_people))
    IN  [d EXCEPT !.rows[idx] =
            [@ EXCEPT !.total_tip = edited_tip,
                      !.per_person_share = per_share,
                      !.vals = [n \in (DOMAIN @) \cup edited_people |->
                                  IF n \in edited_people THEN per_share ELSE @[n]]]]

\* A variant of the update handler that does not store the new share in
\* per_person_share.
UpdateRecordFrameStaleShare(d, idx, edited_tip, edited_people) ==
    LET per_share == calculate_tip_per_person(edited_tip, Cardinality(edited_people))
    IN  [d EXCEPT !.rows[idx] =
            [@ EXCEPT !.total_tip = edited_tip,
                      !.vals = [n \in get_name_columns(d) |->
                                  IF n \in edited_people THEN per_share ELSE 0]]]

\* "Update Record": every name column of the row gets the new share or 0.0.
UpdateRecordFrame(d, idx, edited_tip, edited_people) ==
    LET per_share == calculate_tip_per_person(edited_tip, Cardinality(edited_people))
    IN  [d EXCEPT !.rows[idx] =
            [@ EXCEPT !.total_tip = edited_tip,
                      !.per_person_share = per_share,
                      !.vals = [n \in get_name_columns(d) |->
                                  IF n \in edited_people THEN per_share ELSE 0]]]

\* "Delete" of a record: df.drop(idx).reset_index(drop=True).
DeleteRecordFrame(d, idx) ==
    [d EXCEPT !.rows = [i \in 1..(Len(d.rows) - 1) |->
                          IF i < idx THEN d.rows[i] ELSE d.rows[i + 1]]]

----------------------------------------------------------------------------
(* The summaries *)

\* pd.notna(row[name]) and row[name] > 0
Present(row, name) == name \in DOMAIN row.vals /\ row.vals[name] > 0

\* start <= row_date <= end
InWindow(row, start, end) == DateLE(start, row.date) /\ DateLE(row.date, end)

RECURSIVE SumAmounts(_, _, _)
\* The sum of name's amounts over the rows of d whose index is in rowset.
SumAmounts(d, name, rowset) ==
    IF rowset = {} THEN 0
    ELSE LET i == CHOOSE j \in rowset : TRUE
         IN  (IF Present(d.rows[i], name) THEN d.rows[i].vals[name] ELSE 0)
             + SumAmounts(d, name, rowset \ {i})

\* groupby('name')['amount'].sum() over the long-format rows of rowset.
GroupTotals(d, rowset) ==
    [n \in {m \in get_name_columns(d) : \E i \in rowset : Present(d.rows[i], m)}
        |-> SumAmounts(d, n, rowset)]

\* .sort_values(ascending=False).reset_index(): the tables the call can
\* return.  The default kind, quicksort, is not a stable sort, so nothing
\* fixes the order of names whose totals are equal.
SortValuesDescending(totals) ==
    LET k == Cardinality(DOMAIN totals)
    IN  {[i \in 1..k |-> [name |-> s[i], total |-> totals[s[i]]]] :
            s \in {t \in [1..k -> DOMAIN totals] :
                     /\ \A i, j \in 1..k : i # j => t[i] # t[j]
                     /\ \A i, j \in 1..k : i < j => totals[t[i]] >= totals[t[j]]}}

WindowRows(d, today) ==
    {i \in 1..Len(d.rows) :
        InWindow(d.rows[i], DateMinusDays(today, WindowBack), today)}

\* The 30-day summary of a run on date today.
WindowSummaries(d, today) == SortValuesDescending(GroupTotals(d, WindowRows(d, today)))

\* "Show Full Time Summary".
FullSummaries(d) == SortValuesDescending(GroupTotals(d, 1..Len(d.rows)))

NoTable == << >>

NothingShown == [run |-> "none", today |-> <<0, 0, 0>>, window |-> NoTable, full |-> NoTable]

----------------------------------------------------------------------------
(* The runs of the script *)

NoDate == <<0, 0, 0>>

\* op: the button the run handled and the inputs it was pressed with.
Handled(name, entry_date, tip, people, idx, target) ==
    [name |-> name, date |-> entry_date, tip |-> tip, people |-> people,
     idx |-> idx, target |-> target]

\* Amounts the number inputs accept: min_value=0.0.
TipInputs == Tips \cup {0}

Init ==
    /\ file = NoFile
    /\ df = EmptyFrame
    /\ op = Handled("start", NoDate, 0, {}, 0, "")
    /\ shown = NothingShown

\* A handler saved table d: open(DATA_PATH, 'w') and json.dump, then rerun.
Saved(d) ==
    /\ file' = JsonFile(save_data(d))
    /\ df' = d
    /\ shown' = NothingShown

\* "Save This Day" with at least one person and a positive tip.
SaveThisDay(entry_date, total_tip, selected_names) ==
    /\ op' = Handled("create", entry_date, total_tip, selected_names, 0, "")
    /\ ~LoadRaises(file)
    /\ selected_names # {}
    /\ total_tip > 0
    /\ LET loaded == load_data(file)
       IN  /\ Len(loaded.rows) < MaxRecords
           /\ Saved(SaveThisDayFrame(loaded, entry_date, total_tip, selected_names))

\* "Update Record" of row idx with at least one person selected.
UpdateRecord(idx, edited_tip, edited_people) ==
    /\ op' = Handled("update", NoDate, edited_tip, edited_people, idx, "")
    /\ ~LoadRaises(file)
    /\ idx \in 1..Len(file.data)
    /\ edited_people # {}
    /\ LET loaded == load_data(file)
       IN  /\ edited_people \subseteq get_name_columns(loaded)
           /\ Saved(UpdateRecordFrame(loaded, idx, edited_tip, edited_people))

\* "Delete" of row idx.
DeleteRecord(idx) ==
    /\ op' = Handled("delete", NoDate, 0, {}, idx, "")
    /\ ~LoadRaises(file)
    /\ idx \in 1..Len(file.data)
    /\ Saved(DeleteRecordFrame(load_data(file), idx))

\* "Delete <name>" under Manage Names.
DeleteName(name) ==
    /\ op' = Handled("deleteName", NoDate, 0, {}, 0, name)
    /\ ~LoadRaises(file)
    /\ LET loaded == load_data(file)
       IN  /\ ~IsEmpty(loaded)
           /\ name \in get_name_columns(loaded)
           /\ Saved(delete_name(loaded, name))

\* A run that handles no saving button: it loads the table and, when the
\* table has rows, shows the 30-day summary.
View(today) ==
    /\ op' = Handled("view", today, 0, {}, 0, "")
    /\ ~LoadRaises(file)
    /\ LET loaded == load_data(file)
       IN  /\ df' = loaded
           /\ \E w \in WindowSummaries(loaded, today) :
                 shown' = [run |-> IF IsEmpty(loaded) THEN "none" ELSE "window",
                           today |-> today, window |-> w, full |-> NoTable]
    /\ UNCHANGED file

\* "Show Full Time Summary": the same run also shows the all-time totals.
ShowFullTimeSummary(today) ==
    /\ op' = Handled("full", today, 0, {}, 0, "")
    /\ ~LoadRaises(file)
    /\ LET loaded == load_data(file)
       IN  /\ ~IsEmpty(loaded)
           /\ df' = loaded
           /\ \E w \in WindowSummaries(loaded, today) :
              \E a \in FullSummaries(loaded) :
                 shown' = [run |-> "full", today |-> today, window |-> w, full |-> a]
    /\ UNCHANGED file

\* "Delete All Data": os.remove when the file exists; the run has already
\* loaded and shown the table, and it does not rerun.
DeleteAllData(today) ==
    /\ op' = Handled("deleteAll", today, 0, {}, 0, "")
    /\ ~LoadRaises(file)
    /\ file.exists
    /\ LET loaded == load_data(file)
       IN  /\ df' = loaded
           /\ \E w \in WindowSummaries(loaded, today) :
                 shown' = [run |-> "window", today |-> today,
                           window |-> w, full |-> NoTable]
    /\ file' = NoFile

\* The runs that change the store.
Next ==
    \/ \E d \in EntryDates, t \in TipInputs, s \in SUBSET Names : SaveThisDay(d, t, s)
    \/ \E i \in 1..MaxRecords, t \in TipInputs, s \in SUBSET Names : UpdateRecord(i, t, s)
    \/ \E i \in 1..MaxRecords : DeleteRecord(i)
    \/ \E n \in Names : DeleteName(n)
    \/ \E t \in Todays : DeleteAllData(t)

Spec == Init /\ [][Next]_vars

\* The runs that change the store and the runs that only display it.
NextView ==
    \/ \E d \in EntryDates, t \in TipInputs, s \in SUBSET Names : SaveThisDay(d, t, s)
    \/ \E i \in 1..MaxRecords, t \in TipInputs, s \in SUBSET Names : UpdateRecord(i, t, s)
    \/ \E i \in 1..MaxRecords : DeleteRecord(i)
    \/ \E n \in Names : DeleteName(n)
    \/ \E t \in Todays : DeleteAllData(t)
    \/ \E t \in Todays : View(t)
    \/ \E t \in Todays : ShowFullTimeSummary(t)

SpecView == Init /\ [][NextView]_vars

----------------------------------------------------------------------------
(* The store when a run can be killed while it saves *)

\* The tables a saving button could hand to save_data in the current state.
PendingFrames ==
    LET loaded == load_data(file)
    IN  (IF Len(loaded.rows) < MaxRecords
         THEN {SaveThisDayFrame(loaded, e, t, s) :
                 e \in EntryDates, t \in Tips, s \in (SUBSET Names) \ {{}}}
         ELSE {})
        \cup {UpdateRecordFrame(loaded, i, t, s) :
                 i \in 1..Len(loaded.rows), t \in TipInputs,
                 s \in (SUBSET get_name_columns(loaded)) \ {{}}}
        \cup {DeleteRecordFrame(loaded, i) : i \in 1..Len(loaded.rows)}
        \cup {delete_name(loaded, n) : n \in get_name_columns(loaded)}

\* save_data is two statements: open(DATA_PATH, 'w') empties the file, then
\* json.dump writes the array piece by piece.  A run that is killed, or whose
\* write fails, in between leaves the first k objects and no closing bracket.
KilledInSave(k) ==
    /\ op' = Handled("killed", NoDate, 0, {}, 0, "")
    /\ ~LoadRaises(file)
    /\ \E d \in PendingFrames :
          /\ k <= Len(d.rows)
          /\ file' = [exists |-> TRUE, intact |-> FALSE,
                      data |-> SubSeq(save_data(d), 1, k)]
    /\ df' = EmptyFrame
    /\ shown' = NothingShown

NextCrash ==
    \/ \E d \in EntryDates, t \in TipInputs, s \in SUBSET Names : SaveThisDay(d, t, s)
    \/ \E i \in 1..MaxRecords, t \in TipInputs, s \in SUBSET Names : UpdateRecord(i, t, s)
    \/ \E i \in 1..MaxRecords : DeleteRecord(i)
    \/ \E n \in Names : DeleteName(n)
    \/ \E t \in Todays : DeleteAllData(t)
    \/ \E k \in 0..MaxRecords : KilledInSave(k)

SpecCrash == Init /\ [][NextCrash]_vars

----------------------------------------------------------------------------
(* Properties *)

SavingRuns == {"create", "update", "delete", "deleteName"}

KnownNames(f) == UnionOfDomains(f.data)

\* A person's amount in a row, an absent cell counting as 0.
AmountOf(row, n) == IF Present(row, n) THEN row.vals[n] ELSE 0

\* Two tables hold the same records in the same order, a zero amount and an
\* absent one counting as the same.
SameRecords(a, b) ==
    /\ Len(a.rows) = Len(b.rows)
    /\ \A i \in 1..Len(a.rows) :
          /\ a.rows[i].date = b.rows[i].date
          /\ a.rows[i].total_tip = b.rows[i].total_tip
          /\ a.rows[i].per_person_share = b.rows[i].per_person_share
          /\ \A n \in Names : AmountOf(a.rows[i], n) = AmountOf(b.rows[i], n)

\* C1: after a handler saved its table, load_data() succeeds and returns the
\* same records in the same order (round trip of save then load), for a
\* table of any length from zero up.
C1_RoundTrip ==
    op.name \in SavingRuns =>
        /\ ~LoadRaises(file)
        /\ SameRecords(load_data(file), df)

\* What C2 says of a "Save This Day" step with these inputs.
CreateAppendsOne(entry_date, total_tip, selected_names) ==
    LET old == file.data
        new == file'.data
        share == calculate_tip_per_person(total_tip, Cardinality(selected_names))
    IN  /\ Len(new) = Len(old) + 1
        /\ new[Len(new)].date = isoformat(entry_date)
        /\ \A n \in selected_names :
              /\ n \in DOMAIN new[Len(new)].fields
              /\ new[Len(new)].fields[n] = share
        /\ \A i \in 1..Len(old) :
              /\ new[i].date = old[i].date
              /\ new[i].total_tip = old[i].total_tip
              /\ new[i].per_person_share = old[i].per_person_share
              /\ \A n \in DOMAIN old[i].fields :
                    /\ n \in DOMAIN new[i].fields
                    /\ new[i].fields[n] = old[i].fields[n]
              /\ \A n \in selected_names \ KnownNames(file) :
                    n \in DOMAIN new[i].fields => new[i].fields[n] = 0

\* C2: a successful "Save This Day" appends exactly one record whose amount
\* for every selected name is the computed share; every stored record keeps
\* its date, total_tip, per_person_share and amounts, and has 0.0 or no
\* field for a name that is new in this call.
C2_CreateAppendsOne ==
    [][op'.name = "create" => CreateAppendsOne(op'.date, op'.tip, op'.people)]_vars

\* C2 witness: a second record was saved for someone the first record has
\* a 0.0 for, and the first record still pays someone else.
C2_Witness ==
    /\ op.name = "create"
    /\ Len(file.data) = 2
    /\ \E n \in op.people, m \in Names :
          /\ file.data[2].fields[n] > 0
          /\ n \in DOMAIN file.data[1].fields
          /\ file.data[1].fields[n] = 0
          /\ m \in DOMAIN file.data[1].fields
          /\ file.data[1].fields[m] > 0

\* Whichever table the sort returns, the all-time summary of file f lists
\* name n, if at all, with the total expected.
ListedAllTime(f, n, expected) ==
    \A a \in FullSummaries(load_data(f)) :
        \A k \in 1..Len(a) : a[k].name = n => a[k].total = expected

\* No summary computed from file f, on any day, lists name n.
InNoSummary(f, n) ==
    /\ \A t \in Todays :
          \A w \in WindowSummaries(load_data(f), t) :
              \A k \in 1..Len(w) : w[k].name # n
    /\ \A a \in FullSummaries(load_data(f)) :
          \A k \in 1..Len(a) : a[k].name # n

\* What C3 says of an "Update Record" step with these inputs.
UpdateSetsShares(i, edited_tip, edited_people) ==
    LET old == file.data
        new == file'.data
        share == calculate_tip_per_person(edited_tip, Cardinality(edited_people))
    IN  /\ Len(new) = Len(old)
        /\ DOMAIN new[i].fields = KnownNames(file)
        /\ \A n \in KnownNames(file) :
              new[i].fields[n] = IF n \in edited_people THEN share ELSE 0
        /\ new[i].total_tip = edited_tip
        /\ new[i].per_person_share = share
        /\ new[i].date = old[i].date
        /\ \A j \in 1..Len(old) : j # i => new[j] = old[j]
        /\ \A n \in KnownNames(file) \ edited_people :
              ListedAllTime(file', n,
                  SumAmounts(load_data(file), n, (1..Len(old)) \ {i}))

\* C3: "Update Record" with a non-empty selection gives the record the new
\* share for every selected name and an explicit 0.0 for every other known
\* name, sets total_tip and per_person_share, leaves every other record
\* unchanged, and the all-time summary then counts, for a name outside the
\* selection, only the other records.
C3_UpdateSetsShares ==
    [][op'.name = "update" => UpdateSetsShares(op'.idx, op'.tip, op'.people)]_vars

\* C3 witness: one of two records was updated to a selection that pays one
\* known name and leaves out another, whom the other record pays.
C3_Witness ==
    /\ op.name = "update"
    /\ Len(file.data) = 2
    /\ \E j \in 1..2 : \E n \in KnownNames(file) \ op.people, m \in op.people :
          /\ j # op.idx
          /\ file.data[op.idx].fields[n] = 0
          /\ file.data[op.idx].fields[m] > 0
          /\ file.data[j].fields[n] > 0

\* C4: deleting the same record id twice leaves the store as deleting it
\* once did: the second call removes nothing.
C4_DeleteIdempotent ==
    [][(op.name = "delete" /\ op'.name = "delete" /\ op'.idx = op.idx)
          => file' = file]_vars

ShownNames(s) ==
    {s.window[k].name : k \in 1..Len(s.window)}
        \cup {s.full[k].name : k \in 1..Len(s.full)}

\* What C5 says of a "Delete <name>" step.
DeleteNamePurges(name) ==
    LET old == file.data
        new == file'.data
    IN  /\ Len(new) = Len(old)
        /\ \A i \in 1..Len(old) :
              /\ name \notin DOMAIN new[i].fields
              /\ DOMAIN new[i].fields = (DOMAIN old[i].fields) \ {name}
              /\ \A m \in DOMAIN new[i].fields :
                    new[i].fields[m] = old[i].fields[m]
              /\ new[i].date = old[i].date
              /\ new[i].total_tip = old[i].total_tip
              /\ new[i].per_person_share = old[i].per_person_share
        /\ InNoSummary(file', name)

\* C5: after "Delete <name>" no stored record has a field for the name and
\* every other field of every record is unchanged; and a name no record has
\* a field for stays out of the records and out of every summary shown,
\* until a "Save This Day" names it.
C5_DeleteNamePurges ==
    [][/\ op'.name = "deleteName" => DeleteNamePurges(op'.target)
       /\ \A n \in Names :
            (/\ n \notin KnownNames(file)
             /\ ~(op'.name = "create" /\ n \in op'.people))
            => /\ n \notin KnownNames(file')
               /\ n \notin ShownNames(shown')
               /\ InNoSummary(file', n)
    ]_vars

\* C5 witness: a name was deleted from a store of two records that still
\* pays another name.
C5_Witness ==
    /\ op.name = "deleteName"
    /\ Len(file.data) = 2
    /\ op.target \notin KnownNames(file)
    /\ \E m \in KnownNames(file) : file.data[1].fields[m] > 0

\* s is total / k rounded to the cent (either way on a tie); 0 for nobody.
IsRoundedShare(s, total, k) ==
    IF k = 0 THEN s = 0
    ELSE /\ 2 * (k * s - total) <= k
         /\ 2 * (total - k * s) <= k

PresentIn(r) == {n \in DOMAIN r.fields : r.fields[n] > 0}

ShareMatchesPresent(r) ==
    IsRoundedShare(r.per_person_share, r.total_tip, Cardinality(PresentIn(r)))

AllSharesMatch(f) == \A i \in 1..Len(f.data) : ShareMatchesPresent(f.data[i])

\* C6: in every reachable store state every record's per_person_share is
\* its total_tip divided by the number of its participants with amount > 0,
\* rounded to 2 decimals.
C6_ShareMatchesPresent == AllSharesMatch(file)

\* C6 as amended: every run except "Delete <name>" keeps that equality for
\* all records, and "Delete <name>" leaves total_tip and per_person_share of
\* every record as they were (it does not recompute the share).
C6_ShareKeptExceptDeleteName ==
    [][/\ (op'.name # "deleteName" /\ AllSharesMatch(file)) => AllSharesMatch(file')
       /\ op'.name = "deleteName" =>
            \A i \in 1..Len(file.data) :
                /\ file'.data[i].total_tip = file.data[i].total_tip
                /\ file'.data[i].per_person_share = file.data[i].per_person_share
    ]_vars

\* C6 witness: after an update every record's share matches, and the updated
\* record splits a tip that does not divide evenly among the people present.
C6_Witness ==
    /\ op.name = "update"
    /\ AllSharesMatch(file)
    /\ Len(file.data) = 2
    /\ Cardinality(PresentIn(file.data[op.idx])) > 1
    /\ Cardinality(PresentIn(file.data[op.idx])) * file.data[op.idx].per_person_share
          # file.data[op.idx].total_tip

\* C7: a record object of the file has a person-name field only when that
\* person's amount in the record is positive.
C7_OnlyPositiveFields ==
    \A i \in 1..Len(file.data) :
        \A n \in DOMAIN file.data[i].fields : file.data[i].fields[n] > 0

\* C7 as amended: every record object of the file has a field for every
\* person-name any record of the file has a field for; a person who is not
\* present in a record has an explicit 0.0 there.
C7_EveryColumnWritten ==
    \A i \in 1..Len(file.data) : DOMAIN file.data[i].fields = KnownNames(file)

\* C7 witness: a saved record carries a 0.0 field next to a positive one.
C7_Witness ==
    /\ op.name \in SavingRuns
    /\ \E i \in 1..Len(file.data) :
          \E n, m \in DOMAIN file.data[i].fields :
              file.data[i].fields[n] = 0 /\ file.data[i].fields[m] > 0

\* C8: whatever happens during a save, the file afterwards is a complete
\* JSON array (the new records or the prior ones), never a truncated text.
C8_SaveAtomic == file.exists => file.intact

\* C9: in every reachable store state load_data() succeeds.
C9_LoadSucceeds == ~LoadRaises(file)

\* C10: the 30-day summary lists exactly the names with a positive amount in
\* a record dated within [today - 29 days, today], each with the sum of its
\* positive amounts there, by descending total and, among equal totals, by
\* name ascending; it is empty when no record is in the range.
C10_WindowSummary ==
    shown.run # "none" =>
        LET start == DateMinusDays(shown.today, WindowBack)
            inrange == {i \in 1..Len(df.rows) :
                          DateLE(start, df.rows[i].date)
                          /\ DateLE(df.rows[i].date, shown.today)}
            listed == {n \in Names :
                          \E i \in inrange : AmountOf(df.rows[i], n) > 0}
            w == shown.window
        IN  /\ {w[k].name : k \in 1..Len(w)} = listed
            /\ \A k \in 1..Len(w) : w[k].total = SumAmounts(df, w[k].name, inrange)
            /\ \A j, k \in 1..Len(w) :
                  j < k => \/ w[j].total > w[k].total
                           \/ /\ w[j].total = w[k].total
                              /\ NameRank(w[j].name) < NameRank(w[k].name)

====
